---------------------------- MODULE Spec2Model ----------------------------
(***************************************************************************)
(* Model of ml_app/app/ingest/import_merge.py: the three functions         *)
(* import_gcs_data, merge_data and export_data_gcs.                        *)
(*                                                                         *)
(* A table (pandas.DataFrame) is a sequence of rows; a row is a record     *)
(* from column names to cell values; every cell value is a string, the     *)
(* missing value being NaN.  A parsed date is a record [year, month, day]. *)
(* Each function is a state machine over its own local variables, one      *)
(* action per statement, and has its own specification: SpecImport,        *)
(* SpecMerge, SpecExport.                                                  *)
(***************************************************************************)
EXTENDS Integers, Sequences, FiniteSets, TLC

VARIABLES
    \* import_gcs_data
    imp_pc,        \* position of the call
    gcs_object,    \* the CSV object at gcs://bucket/folder/filename (text rows), or None
    import_data,   \* the dataset descriptor
    imp_df,        \* local df
    output,        \* the returned dict
    \* merge_data
    pc,            \* position of the call
    df_list,       \* the argument
    i,             \* index of the next entry of the for loop
    bound,         \* the local names among df_sl, df_it, df_ic that are bound
    df_sl, df_it, df_ic,
    df,            \* local df: the loop variable, then the merged table
    err,           \* the exception that ended the call, or NoError
    merged,        \* <<the returned table>>, or None before the return
    \* export_data_gcs
    exp_pc,        \* position of each call
    exp_arg,       \* the table each call was given
    exp_df,        \* each call's df object as it is now
    exp_ret,       \* what each call returned
    wrote,         \* the destinations each call has written completely
    gcs_file,      \* content at gcs://bucket/export_data_folder/filename
    local_file     \* content at local_export_folder/filename

importVars == <<imp_pc, gcs_object, import_data, imp_df, output>>
mergeVars == <<pc, df_list, i, bound, df_sl, df_it, df_ic, df, err, merged>>
exportVars == <<exp_pc, exp_arg, exp_df, exp_ret, wrote, gcs_file, local_file>>
vars == <<importVars, mergeVars, exportVars>>

(***************************************************************************)
(* Bounds                                                                  *)
(***************************************************************************)
MaxRows == 2       \* rows of each table given to merge_data
MaxLen == 4        \* entries of df_list
MaxCsvRows == 2    \* data rows of the CSV object read by import_gcs_data

(***************************************************************************)
(* Values                                                                  *)
(***************************************************************************)
NaN == "NaN"
NoError == "none"
NoTable == <<>>      \* placeholder held by a local name that is not bound
None == <<>>         \* an optional value that is absent
Some(x) == <<x>>     \* an optional value that is present

\* The sequences over S of length at most n.
SeqsUpTo(S, n) == UNION {[1..m -> S] : m \in 0..n}

(***************************************************************************)
(* merge_data                                                              *)
(***************************************************************************)
ExpectedNames == {"df_sl", "df_it", "df_ic"}
OtherNames == {"df_sh"}
DfNames == ExpectedNames \cup OtherNames

ItemIds == {"i1", "i2"}
CategoryIds == {"c1", "c2"}
GoodDate == "2013-01-02"
BadDate == "not a date"

SlCols == {"date", "item_id"}
ItCols == {"item_id", "item_category_id"}
IcCols == {"item_category_id", "name"}

SlRow(d, it) == [date |-> d, item_id |-> it]
ItRow(it, c) == [item_id |-> it, item_category_id |-> c]
IcRow(c, n) == [item_category_id |-> c, name |-> n]

\* Tables of the three schemas, any content: repeated keys, unmatched keys.
SlRows == {SlRow(GoodDate, it) : it \in ItemIds}
ItRows == {ItRow(it, c) : it \in ItemIds, c \in CategoryIds}
IcRows == {IcRow("c1", "Movies"), IcRow("c1", "Music"), IcRow("c2", "Games")}
SlTables == SeqsUpTo(SlRows, MaxRows)
ItTables == SeqsUpTo(ItRows, MaxRows)
IcTables == SeqsUpTo(IcRows, MaxRows)

\* A few tables of each schema, for the lists of any shape.
\* A table named df_ic may hold anything, a table without the key column too.
ShPool == { <<[shop_id |-> "s1", shop_name |-> "Moscow"]>> }
SlPool == { <<SlRow(GoodDate, "i2"), SlRow(GoodDate, "i1")>>,
            <<SlRow(GoodDate, "i1"), SlRow(BadDate, "i2")>> }
ItPool == { <<ItRow("i1", "c1")>>,
            <<ItRow("i1", "c2"), ItRow("i2", "c1")>> }
IcPool == { <<IcRow("c1", "Movies"), IcRow("c2", "Games")>>,
            <<IcRow("c1", "Music")>> } \cup ShPool

Entry(n, t) == [df_name |-> n, df |-> t]
PoolOf(n) ==
    CASE n = "df_sl" -> SlPool
      [] n = "df_it" -> ItPool
      [] n = "df_ic" -> IcPool
      [] OTHER -> ShPool
PoolEntries == UNION {{Entry(n, t) : t \in PoolOf(n)} : n \in DfNames}

DfLists ==
    {<<Entry("df_sl", s), Entry("df_it", t), Entry("df_ic", c)>> :
        s \in SlTables, t \in ItTables, c \in IcTables}
    \cup SeqsUpTo(PoolEntries, MaxLen)

\* Faulty variant: the three tables taken by position in the list, not by name
SelectsByPosition(k, n) == k <= 3 /\ n = <<"df_sl", "df_it", "df_ic">>[k]

\* if df['df_name'] == '<name>': the test of the loop body on entry k of df_list.
Selects(k, n) == df_list[k].df_name = n

\* Faulty variant: a name that is already bound keeps its first table
KeepFirstBinding(old, new, wasBound) == IF wasBound THEN old ELSE new

\* df_x = df['df'].copy(): the name is (re)bound to a copy of the entry's table.
Rebind(old, new, wasBound) == new

\* Faulty variant: an entry with an unknown name is rejected
OnUnmatchedRaise == "error"

\* An entry matching none of the three tests: the loop goes on.
OnUnmatched == "unpack"

\* Faulty variant: the three locals start out bound, to empty tables
IsBoundByDefault(n) == TRUE

\* A read of a local name: Python raises UnboundLocalError unless it was assigned.
IsBound(n) == n \in bound

\* df[key]: pandas raises KeyError when a table has no such column.
HasColumn(t, col) == \A k \in 1..Len(t) : col \in DOMAIN t[k]

\* The rows of right whose key equals the key of row l, in right's order.
Matches(l, right, key) == SelectSeq(right, LAMBDA r : r[key] = l[key])

\* One output row of a merge: the left row's columns, then right's other columns.
Combine(l, r, key) == l @@ [c \in (DOMAIN r) \ {key} |-> r[c]]
Unmatched(l, rightCols, key) == l @@ [c \in rightCols \ {key} |-> NaN]

RECURSIVE Concat(_)
Concat(ss) == IF ss = <<>> THEN <<>> ELSE Head(ss) \o Concat(Tail(ss))

\* Faulty variant: how='inner': a left row without a match is dropped
InnerMerge(left, right, rightCols, key) ==
    Concat([k \in 1..Len(left) |->
        LET m == Matches(left[k], right, key)
        IN [j \in 1..Len(m) |-> Combine(left[k], m[j], key)]])

\* left.merge(right=right, left_on=key, right_on=key, how='left')
LeftMerge(left, right, rightCols, key) ==
    Concat([k \in 1..Len(left) |->
        LET m == Matches(left[k], right, key)
        IN IF m = <<>> THEN <<Unmatched(left[k], rightCols, key)>>
           ELSE [j \in 1..Len(m) |-> Combine(left[k], m[j], key)]])

\* pd.to_datetime on one text value
Parseable(s) == s = GoodDate
Timestamp(s) == CASE s = "2013-01-02" -> [year |-> 2013, month |-> 1, day |-> 2]
AllParseable(t) == \A k \in 1..Len(t) : Parseable(t[k].date)
ToDatetime(t) == [k \in 1..Len(t) |-> [t[k] EXCEPT !.date = Timestamp(t[k].date)]]

InitMerge ==
    /\ df_list \in DfLists
    /\ pc = "unpack"
    /\ i = 1
    /\ bound = {}
    /\ df_sl = NoTable /\ df_it = NoTable /\ df_ic = NoTable
    /\ df = NoTable
    /\ err = NoError
    /\ merged = None

InLoop == pc = "unpack" /\ i <= Len(df_list)
LoopStep(to) ==
    /\ df' = df_list[i]
    /\ i' = i + 1
    /\ pc' = to
    /\ UNCHANGED <<df_list, err, merged, importVars, exportVars>>

UnpackSl ==
    /\ InLoop
    /\ Selects(i, "df_sl")
    /\ df_sl' = Rebind(df_sl, df_list[i].df, IsBound("df_sl"))
    /\ bound' = bound \cup {"df_sl"}
    /\ UNCHANGED <<df_it, df_ic>>
    /\ LoopStep("unpack")

UnpackIt ==
    /\ InLoop
    /\ ~Selects(i, "df_sl")
    /\ Selects(i, "df_it")
    /\ df_it' = Rebind(df_it, df_list[i].df, IsBound("df_it"))
    /\ bound' = bound \cup {"df_it"}
    /\ UNCHANGED <<df_sl, df_ic>>
    /\ LoopStep("unpack")

UnpackIc ==
    /\ InLoop
    /\ ~Selects(i, "df_sl")
    /\ ~Selects(i, "df_it")
    /\ Selects(i, "df_ic")
    /\ df_ic' = Rebind(df_ic, df_list[i].df, IsBound("df_ic"))
    /\ bound' = bound \cup {"df_ic"}
    /\ UNCHANGED <<df_sl, df_it>>
    /\ LoopStep("unpack")

UnpackOther ==
    /\ InLoop
    /\ \A n \in ExpectedNames : ~Selects(i, n)
    /\ UNCHANGED <<bound, df_sl, df_it, df_ic>>
    /\ LoopStep(OnUnmatched)

Raise(e) ==
    /\ pc' = "error"
    /\ err' = e
    /\ UNCHANGED <<df_list, i, bound, df_sl, df_it, df_ic, df, merged, importVars, exportVars>>

\* df = df_it.merge(right=df_ic, on item_category_id, how='left')
MergeItems ==
    /\ pc = "unpack" /\ i > Len(df_list)
    /\ IF ~(IsBound("df_it") /\ IsBound("df_ic"))
       THEN Raise("UnboundLocalError")
       ELSE IF ~(HasColumn(df_it, "item_category_id") /\ HasColumn(df_ic, "item_category_id"))
       THEN Raise("KeyError")
       ELSE /\ df' = LeftMerge(df_it, df_ic, IcCols, "item_category_id")
            /\ pc' = "merge_sales"
            /\ UNCHANGED <<df_list, i, bound, df_sl, df_it, df_ic, err, merged,
                           importVars, exportVars>>

\* df = df_sl.merge(right=df, on item_id, how='left')
MergeSales ==
    /\ pc = "merge_sales"
    /\ IF ~IsBound("df_sl")
       THEN Raise("UnboundLocalError")
       ELSE IF ~(HasColumn(df_sl, "item_id") /\ HasColumn(df, "item_id"))
       THEN Raise("KeyError")
       ELSE /\ df' = LeftMerge(df_sl, df, ItCols \cup IcCols, "item_id")
            /\ pc' = "to_datetime"
            /\ UNCHANGED <<df_list, i, bound, df_sl, df_it, df_ic, err, merged,
                           importVars, exportVars>>

\* df['date'] = pd.to_datetime(df['date'])
ConvertDate ==
    /\ pc = "to_datetime"
    /\ IF ~HasColumn(df, "date")
       THEN Raise("KeyError")
       ELSE IF ~AllParseable(df)
       THEN Raise("ParserError")
       ELSE /\ df' = ToDatetime(df)
            /\ pc' = "return"
            /\ UNCHANGED <<df_list, i, bound, df_sl, df_it, df_ic, err, merged,
                           importVars, exportVars>>

\* return df
ReturnMerged ==
    /\ pc = "return"
    /\ merged' = Some(df)
    /\ pc' = "done"
    /\ UNCHANGED <<df_list, i, bound, df_sl, df_it, df_ic, df, err, importVars, exportVars>>

NextMerge ==
    \/ UnpackSl
    \/ UnpackIt
    \/ UnpackIc
    \/ UnpackOther
    \/ MergeItems
    \/ MergeSales
    \/ ConvertDate
    \/ ReturnMerged

(***************************************************************************)
(* import_gcs_data                                                         *)
(***************************************************************************)
CsvCols == <<"item_id", "item_category_id">>
FieldTexts == {"7", "07", "x", ""}
CsvRows == {<<a, b>> : a \in FieldTexts, b \in FieldTexts}
CsvObjects == {None} \cup {Some(rows) : rows \in SeqsUpTo(CsvRows, MaxCsvRows)}

Descriptors ==
    {[bucket_name |-> "bucket", import_data_folder |-> "raw", filename |-> "items.csv",
      df_name |-> n] : n \in DfNames}

\* pd.read_csv type inference: a column is numeric when each of its fields is an
\* integer literal or empty; its numbers are read by value, an empty field is NaN.
IsIntText(s) == s \in {"7", "07"}
IntValue(s) == CASE s \in {"7", "07"} -> "7"
NumericColumn(rows, c) == \A k \in 1..Len(rows) : IsIntText(rows[k][c]) \/ rows[k][c] = ""
ParseCell(rows, k, c) ==
    IF rows[k][c] = "" THEN NaN
    ELSE IF NumericColumn(rows, c) THEN IntValue(rows[k][c])
    ELSE rows[k][c]
ReadCsv(rows) ==
    [k \in 1..Len(rows) |-> [item_id |-> ParseCell(rows, k, 1),
                             item_category_id |-> ParseCell(rows, k, 2)]]

\* Faulty variant: df.drop_duplicates() with its result not assigned
KeepAll(t) == t

\* df.drop_duplicates(): the first of each group of equal rows is kept, in order.
RECURSIVE KeepFirst(_, _)
KeepFirst(t, seen) ==
    IF t = <<>> THEN <<>>
    ELSE IF Head(t) \in seen THEN KeepFirst(Tail(t), seen)
    ELSE <<Head(t)>> \o KeepFirst(Tail(t), seen \cup {Head(t)})
DropDuplicates(t) == KeepFirst(t, {})

InitImport ==
    /\ imp_pc = "read"
    /\ gcs_object \in CsvObjects
    /\ import_data \in Descriptors
    /\ imp_df = NoTable
    /\ output = None

\* df = pd.read_csv(f'gcs://{bucket_name}/{import_data_folder}/{filename}')
ReadObject ==
    /\ imp_pc = "read"
    /\ IF gcs_object = None
       THEN imp_pc' = "error" /\ imp_df' = imp_df
       ELSE imp_pc' = "dedup" /\ imp_df' = ReadCsv(gcs_object[1])
    /\ UNCHANGED <<gcs_object, import_data, output, mergeVars, exportVars>>

\* df = df.drop_duplicates()
Deduplicate ==
    /\ imp_pc = "dedup"
    /\ imp_df' = DropDuplicates(imp_df)
    /\ imp_pc' = "return"
    /\ UNCHANGED <<gcs_object, import_data, output, mergeVars, exportVars>>

\* output = dict(df_name=df_name, df=df); return output
ReturnOutput ==
    /\ imp_pc = "return"
    /\ output' = Some(Entry(import_data.df_name, imp_df))
    /\ imp_pc' = "done"
    /\ UNCHANGED <<gcs_object, import_data, imp_df, mergeVars, exportVars>>

NextImport ==
    \/ ReadObject
    \/ Deduplicate
    \/ ReturnOutput

(***************************************************************************)
(* export_data_gcs                                                         *)
(***************************************************************************)
Calls == {"A", "B"}

\* The merged tables handed to the exporter.
MergedOf(s, t, c) ==
    ToDatetime(LeftMerge(s, LeftMerge(t, c, IcCols, "item_category_id"),
                         ItCols \cup IcCols, "item_id"))
ExportTables ==
    {<<>>} \cup {MergedOf(s, <<ItRow("i1", "c1")>>, <<IcRow("c1", "Movies")>>) :
                    s \in {t \in SlTables : Len(t) = MaxRows}}

\* DataFrame.to_csv(path, index=False): a header line, then one line per row; a
\* line is the tuple of its fields' texts, NaN written as the empty field.
Header == <<"date", "item_id", "item_category_id", "name">>
FormatCell(v) == IF v = NaN THEN "" ELSE v
FormatDate(ts) ==
    IF ts = [year |-> 2013, month |-> 1, day |-> 2] THEN "2013-01-02" ELSE "NaT"
FormatRow(r) ==
    <<FormatDate(r.date), FormatCell(r.item_id), FormatCell(r.item_category_id),
      FormatCell(r.name)>>
ToCsv(t) == <<Header>> \o [k \in 1..Len(t) |-> FormatRow(t[k])]

\* Faulty variant: index=False left out: the row index is written as a first column
ToCsvWithIndex(t) ==
    <<<<"">> \o Header>> \o [k \in 1..Len(t) |-> <<ToString(k - 1)>> \o FormatRow(t[k])]

\* The text of the two writes.
GcsCsv(t) == ToCsv(t)
LocalCsv(t) == ToCsv(t)

\* Faulty variant: df = df.to_csv(...): the name df is rebound to to_csv's result, None
DfLostToCsv(t) == None

\* to_csv leaves the frame it serializes as it was.
DfAfterToCsv(t) == t

\* Faulty variant: the local export comes first
StartWithLocal == "local"

\* The statements of the function in order: the GCS export, the local export, return.
StartPc == "gcs"
AfterGcs == "local"
AfterLocal == "return"

\* Faulty variant: a call holds a lock from its GCS write to its local write
MayWriteUnlessLocked(c) == \A d \in Calls \ {c} : exp_pc[d] # "local"

\* Nothing makes a call wait for another one.
MayWrite(c) == TRUE

\* What a write that failed part-way leaves behind: any strict prefix of the text.
StrictPrefixes(text) == {SubSeq(text, 1, n) : n \in 0..(Len(text) - 1)}

InitExport ==
    /\ exp_pc = [c \in Calls |-> "idle"]
    /\ exp_arg = [c \in Calls |-> NoTable]
    /\ exp_df = [c \in Calls |-> NoTable]
    /\ exp_ret = [c \in Calls |-> None]
    /\ wrote = [c \in Calls |-> {}]
    /\ gcs_file = None
    /\ local_file = None

\* export_data_gcs(df, export_data) is called
CallExport(c, t) ==
    /\ exp_pc[c] = "idle"
    /\ exp_arg' = [exp_arg EXCEPT ![c] = t]
    /\ exp_df' = [exp_df EXCEPT ![c] = t]
    /\ exp_pc' = [exp_pc EXCEPT ![c] = StartPc]
    /\ UNCHANGED <<exp_ret, wrote, gcs_file, local_file, importVars, mergeVars>>

\* df.to_csv(f'gcs://{bucket_name}/{export_data_folder}/{filename}', index=False)
WriteGcs(c) ==
    /\ exp_pc[c] = "gcs"
    /\ MayWrite(c)
    /\ gcs_file' = Some(GcsCsv(exp_df[c]))
    /\ exp_df' = [exp_df EXCEPT ![c] = DfAfterToCsv(exp_df[c])]
    /\ wrote' = [wrote EXCEPT ![c] = @ \cup {"gcs"}]
    /\ exp_pc' = [exp_pc EXCEPT ![c] = AfterGcs]
    /\ UNCHANGED <<exp_arg, exp_ret, local_file, importVars, mergeVars>>

\* the GCS write raises: the object is not replaced, the exception leaves the function
FailGcs(c) ==
    /\ exp_pc[c] = "gcs"
    /\ MayWrite(c)
    /\ exp_pc' = [exp_pc EXCEPT ![c] = "error"]
    /\ UNCHANGED <<exp_arg, exp_df, exp_ret, wrote, gcs_file, local_file,
                   importVars, mergeVars>>

\* df.to_csv(f'{local_export_folder}/{filename}', index=False)
WriteLocal(c) ==
    /\ exp_pc[c] = "local"
    /\ MayWrite(c)
    /\ local_file' = Some(LocalCsv(exp_df[c]))
    /\ exp_df' = [exp_df EXCEPT ![c] = DfAfterToCsv(exp_df[c])]
    /\ wrote' = [wrote EXCEPT ![c] = @ \cup {"local"}]
    /\ exp_pc' = [exp_pc EXCEPT ![c] = AfterLocal]
    /\ UNCHANGED <<exp_arg, exp_ret, gcs_file, importVars, mergeVars>>

\* the local write raises, before the file is opened or part-way through it
FailLocal(c) ==
    /\ exp_pc[c] = "local"
    /\ MayWrite(c)
    /\ local_file' \in {local_file} \cup {Some(p) : p \in StrictPrefixes(LocalCsv(exp_df[c]))}
    /\ exp_pc' = [exp_pc EXCEPT ![c] = "error"]
    /\ UNCHANGED <<exp_arg, exp_df, exp_ret, wrote, gcs_file, importVars, mergeVars>>

\* return df
ReturnDf(c) ==
    /\ exp_pc[c] = "return"
    /\ exp_ret' = [exp_ret EXCEPT ![c] = Some(exp_df[c])]
    /\ exp_pc' = [exp_pc EXCEPT ![c] = "done"]
    /\ UNCHANGED <<exp_arg, exp_df, wrote, gcs_file, local_file, importVars, mergeVars>>

NextExport ==
    \/ \E c \in Calls, t \in ExportTables : CallExport(c, t)
    \/ \E c \in Calls : WriteGcs(c)
    \/ \E c \in Calls : FailGcs(c)
    \/ \E c \in Calls : WriteLocal(c)
    \/ \E c \in Calls : FailLocal(c)
    \/ \E c \in Calls : ReturnDf(c)

(***************************************************************************)
(* Specifications: one per function, the other functions' variables idle.  *)
(***************************************************************************)
IdleImport ==
    /\ imp_pc = "idle" /\ gcs_object = None /\ import_data = None
    /\ imp_df = NoTable /\ output = None
IdleMerge ==
    /\ pc = "idle" /\ df_list = <<>> /\ i = 1 /\ bound = {}
    /\ df_sl = NoTable /\ df_it = NoTable /\ df_ic = NoTable /\ df = NoTable
    /\ err = NoError /\ merged = None
IdleExport ==
    /\ exp_pc = [c \in Calls |-> "off"]
    /\ exp_arg = [c \in Calls |-> NoTable]
    /\ exp_df = [c \in Calls |-> NoTable]
    /\ exp_ret = [c \in Calls |-> None]
    /\ wrote = [c \in Calls |-> {}]
    /\ gcs_file = None /\ local_file = None

ImportStart == InitImport /\ IdleMerge /\ IdleExport
MergeStart == InitMerge /\ IdleImport /\ IdleExport
ExportStart == InitExport /\ IdleImport /\ IdleMerge

SpecImport == ImportStart /\ [][NextImport]_vars
SpecMerge == MergeStart /\ [][NextMerge]_vars
SpecExport == ExportStart /\ [][NextExport]_vars

(***************************************************************************)
(* Properties                                                              *)
(***************************************************************************)
Names(list) == {list[k].df_name : k \in 1..Len(list)}
AllPresent == ExpectedNames \subseteq Names(df_list)
Count(list, n) == Cardinality({k \in 1..Len(list) : list[k].df_name = n})
LastIndex(list, n) ==
    CHOOSE k \in 1..Len(list) :
        /\ list[k].df_name = n
        /\ \A j \in (k + 1)..Len(list) : list[j].df_name # n
LastTable(list, n) == list[LastIndex(list, n)].df
Local(n) == CASE n = "df_sl" -> df_sl [] n = "df_it" -> df_it [] n = "df_ic" -> df_ic
UniqueKey(t, key) == \A j, k \in 1..Len(t) : t[j][key] = t[k][key] => j = k
Terminated == pc \in {"done", "error"}
LoopDone == i > Len(df_list)
\* The tables have the columns the joins read and dates that parse.
Usable(s, t, c) ==
    /\ HasColumn(s, "item_id") /\ HasColumn(s, "date") /\ AllParseable(s)
    /\ HasColumn(t, "item_id") /\ HasColumn(t, "item_category_id")
    /\ HasColumn(c, "item_category_id")

\* C1 as stated: with the three tables present and df_sl non-empty, the merged
\* table has exactly as many rows as df_sl, whatever df_it and df_ic hold.
C1_RowCountEqualsSales ==
    (pc = "done" /\ AllPresent /\ Len(LastTable(df_list, "df_sl")) > 0)
        => Len(merged[1]) = Len(LastTable(df_list, "df_sl"))

\* C1 amended: with the three tables present and df_sl non-empty, the merged
\* table has at least as many rows as df_sl, and exactly as many when no item_id
\* is repeated in df_it and no item_category_id is repeated in df_ic.
C1_RowCountAtLeastSales ==
    (pc = "done" /\ AllPresent /\ Len(LastTable(df_list, "df_sl")) > 0)
        => LET s == LastTable(df_list, "df_sl")
               t == LastTable(df_list, "df_it")
               c == LastTable(df_list, "df_ic")
           IN /\ Len(merged[1]) >= Len(s)
              /\ (UniqueKey(t, "item_id") /\ UniqueKey(c, "item_category_id"))
                    => Len(merged[1]) = Len(s)

\* A finished merge of two sales rows, one with a matching item and category and
\* one without, against tables with unique keys.
C1_Witness ==
    /\ pc = "done" /\ AllPresent
    /\ Len(LastTable(df_list, "df_sl")) = 2
    /\ UniqueKey(LastTable(df_list, "df_it"), "item_id")
    /\ UniqueKey(LastTable(df_list, "df_ic"), "item_category_id")
    /\ Len(merged[1]) = 2
    /\ \E k \in 1..2 : merged[1][k].name # NaN
    /\ \E k \in 1..2 : merged[1][k].item_category_id = NaN

\* C2: when one of df_sl, df_it, df_ic does not occur in df_list, the call never
\* returns a table: it runs on until it ends in an error, which is the
\* UnboundLocalError of the first join when df_it or df_ic is the missing one,
\* and otherwise that of the second join unless the first join failed before.
C2_MissingNameFails ==
    ~AllPresent =>
        /\ pc \notin {"to_datetime", "return", "done"}
        /\ merged = None
        /\ pc = "error" => err \in {"UnboundLocalError", "KeyError"}
        /\ (pc = "error" /\ ~({"df_it", "df_ic"} \subseteq Names(df_list)))
              => err = "UnboundLocalError"
        /\ ~Terminated => ENABLED NextMerge

\* The call ended in the error at the second join: df_sl is missing from a list
\* that holds the two other names, one of them twice.
C2_Witness ==
    /\ pc = "error" /\ err = "UnboundLocalError"
    /\ "df_sl" \notin Names(df_list)
    /\ Count(df_list, "df_it") = 2 /\ Count(df_list, "df_ic") = 1

\* C7: for a list of exactly one table per expected name, the outcome is a
\* function of the set of entries alone, so every order of the list gives the
\* same merged table.
C7_OrderIrrelevant ==
    (Len(df_list) = 3 /\ \A n \in ExpectedNames : Count(df_list, n) = 1) =>
        LET ByName(n) == (CHOOSE e \in {df_list[k] : k \in 1..3} : e.df_name = n).df
            s == ByName("df_sl")
            t == ByName("df_it")
            c == ByName("df_ic")
        IN /\ pc = "done" => merged = Some(MergedOf(s, t, c))
           /\ (Terminated /\ Usable(s, t, c)) => pc = "done"
           /\ pc = "error" => ~Usable(s, t, c)

\* A finished merge of a list given in the order df_ic, df_it, df_sl.
C7_Witness ==
    /\ pc = "done" /\ Len(df_list) = 3
    /\ df_list[1].df_name = "df_ic" /\ df_list[2].df_name = "df_it"
    /\ df_list[3].df_name = "df_sl"
    /\ \E k \in 1..Len(merged[1]) : merged[1][k].name # NaN

\* C9: entries of other names are skipped without error: for a list holding
\* each expected name once and any other entries anywhere, the loop binds the
\* three names and the outcome is that of the list without the other entries.
C9_OtherNamesIgnored ==
    (\A n \in ExpectedNames : Count(df_list, n) = 1) =>
        LET kept == SelectSeq(df_list, LAMBDA e : e.df_name \in ExpectedNames)
            s == LastTable(kept, "df_sl")
            t == LastTable(kept, "df_it")
            c == LastTable(kept, "df_ic")
        IN /\ err \notin {"UnboundLocalError"}
           /\ pc = "error" => (LoopDone /\ ~Usable(s, t, c))
           /\ LoopDone => bound = ExpectedNames
           /\ pc = "done" => merged = Some(MergedOf(s, t, c))
           /\ (Terminated /\ Usable(s, t, c)) => pc = "done"

\* A finished merge of a four-entry list whose first entry has another name.
C9_Witness ==
    /\ pc = "done" /\ Len(df_list) = 4
    /\ df_list[1].df_name \notin ExpectedNames
    /\ \A n \in ExpectedNames : Count(df_list, n) = 1
    /\ merged[1] # <<>>

\* C10: a repeated expected name raises nothing; once the loop is over each
\* bound name holds the table of the last entry bearing it, and the result is
\* the merge of those last tables.
C10_LastEntryWins ==
    /\ ~LoopDone => (pc = "unpack" /\ err = NoError)
    /\ LoopDone =>
        /\ bound = ExpectedNames \cap Names(df_list)
        /\ \A n \in bound : Local(n) = LastTable(df_list, n)
    /\ AllPresent =>
        LET s == LastTable(df_list, "df_sl")
            t == LastTable(df_list, "df_it")
            c == LastTable(df_list, "df_ic")
        IN /\ pc = "done" => merged = Some(MergedOf(s, t, c))
           /\ (Terminated /\ Usable(s, t, c)) => pc = "done"
           /\ pc = "error" => ~Usable(s, t, c)

\* A finished merge of a list naming df_it twice with different tables, whose
\* result differs from the merge that would use the first of the two.
C10_Witness ==
    /\ pc = "done" /\ Count(df_list, "df_it") = 2
    /\ LET first == CHOOSE k \in 1..Len(df_list) :
                        /\ df_list[k].df_name = "df_it"
                        /\ k < LastIndex(df_list, "df_it")
       IN merged[1] # MergedOf(LastTable(df_list, "df_sl"), df_list[first].df,
                               LastTable(df_list, "df_ic"))

\* C6: the table returned for a readable CSV holds no two equal rows and holds
\* exactly the rows that read_csv parsed from the object, under the
\* descriptor's df_name.
C6_ImportDeduplicates ==
    imp_pc = "done" =>
        LET parsed == ReadCsv(gcs_object[1])
            out == output[1]
        IN /\ \A j, k \in 1..Len(out.df) : out.df[j] = out.df[k] => j = k
           /\ {out.df[k] : k \in 1..Len(out.df)} = {parsed[k] : k \in 1..Len(parsed)}
           /\ out.df_name = import_data.df_name

\* A finished import whose object held two rows that parse to the same row.
C6_Witness ==
    /\ imp_pc = "done"
    /\ Len(gcs_object[1]) = 2
    /\ Len(output[1].df) = 1
    /\ output[1].df_name = "df_it"

Started(c) == exp_pc[c] # "idle"
Alone(c) == \A d \in Calls \ {c} : ~Started(d)

\* C3: a call writes the local file only after its GCS write has completed; a
\* call that fails after its GCS write ends in an error without a return value,
\* the GCS object is still there, and its local copy was not written.
C3_GcsBeforeLocal ==
    \A c \in Calls :
        /\ "local" \in wrote[c] => "gcs" \in wrote[c]
        /\ (Alone(c) /\ local_file # None) => "gcs" \in wrote[c]
        /\ (exp_pc[c] = "error" /\ "gcs" \in wrote[c]) =>
              /\ "local" \notin wrote[c]
              /\ exp_ret[c] = None
              /\ gcs_file \in {Some(ToCsv(exp_arg[d])) : d \in {e \in Calls : "gcs" \in wrote[e]}}
              /\ Alone(c) => local_file # Some(ToCsv(exp_arg[c]))

\* A single call that failed in its local write, leaving a partial local file.
C3_Witness ==
    \E c \in Calls :
        /\ Alone(c) /\ exp_pc[c] = "error" /\ "gcs" \in wrote[c]
        /\ gcs_file = Some(ToCsv(exp_arg[c]))
        /\ local_file # None

\* C4: after a single call that did not fail, the GCS object and the local file
\* hold the same text, the CSV form of the table given.
C4_SameContent ==
    \A c \in Calls :
        (Alone(c) /\ exp_pc[c] = "done") =>
            /\ gcs_file = local_file
            /\ gcs_file = Some(ToCsv(exp_arg[c]))

\* A single finished call on a table with a row that has missing values.
C4_Witness ==
    \E c \in Calls :
        /\ Alone(c) /\ exp_pc[c] = "done"
        /\ \E k \in 1..Len(exp_arg[c]) : exp_arg[c][k].name = NaN

\* C5: a call returns the table it was given, and that table is never changed.
C5_PassThrough ==
    \A c \in Calls :
        /\ Started(c) => exp_df[c] = exp_arg[c]
        /\ exp_pc[c] = "done" => exp_ret[c] = Some(exp_arg[c])
        /\ exp_pc[c] # "done" => exp_ret[c] = None

\* A finished call on a non-empty table.
C5_Witness ==
    \E c \in Calls : exp_pc[c] = "done" /\ exp_arg[c] # <<>> /\ exp_ret[c] # None

\* C8: nothing coordinates two calls: whatever the other call is doing, a call
\* about to write to GCS can write, and so can a call about to write locally.
C8_NoCoordination ==
    \A c \in Calls :
        /\ exp_pc[c] = "gcs" => ENABLED WriteGcs(c)
        /\ exp_pc[c] = "local" => ENABLED WriteLocal(c)

\* Both calls are done, on different tables; the GCS object is one call's table
\* and the local file is the other call's.
C8_Witness ==
    \E c, d \in Calls :
        /\ exp_pc[c] = "done" /\ exp_pc[d] = "done"
        /\ exp_arg[c] # exp_arg[d]
        /\ gcs_file = Some(ToCsv(exp_arg[c]))
        /\ local_file = Some(ToCsv(exp_arg[d]))

=============================================================================
